---- MODULE Spec2Model ----
(***************************************************************************)
(* Session authentication of the FastAPI todo service: signed session      *)
(* tokens carried in the access_token cookie, the CSRF header check, the   *)
(* rotation of the session token, and the route handlers that use them.    *)
(*                                                                         *)
(* Time is the wall clock in seconds (the resolution of the iat and exp    *)
(* claims of a token).  A string is modelled as the sequence of the words  *)
(* it holds between single spaces, so that str.partition(" ") is computed  *)
(* and not assumed; a word is either plain text or a JWT.                   *)
(***************************************************************************)
EXTENDS Integers, Sequences, FiniteSets, Bags, TLC

\* ------------------------------------------------------------------ bounds
\* The clock advances TickSeconds at a time, at most MaxTicks times.
MaxTicks == 3
TickSeconds == 150
\* insert_one is called at most MaxTodos times.
MaxTodos == 1
\* At most MaxInflight requests await the database at a time.
MaxInflight == 2

MaxTime == MaxTicks * TickSeconds
Times == {i * TickSeconds : i \in 0..MaxTicks}

\* ------------------------------------------------------------------ state
VARIABLES
    now,              \* datetime.utcnow(), in seconds
    collection_user,  \* db.user: a set of documents
    collection_todo,  \* db.todo: a set of documents
    last_oid,         \* number of ObjectIds insert_one gave to todos
    jar,              \* the client's access_token cookie
    resp,             \* the request and response of the exchange this step
                      \* completed (NoResponse when it completed none)
    inflight          \* the bag of requests awaiting the database
                      \* (SpecConcurrent, SpecSignup, SpecUpdate)

vars == <<now, collection_user, collection_todo, last_oid, jar, resp, inflight>>

\* ----------------------------------------------------------------- inputs
Emails == {"a@x.io", "b@x.io"}
Passwords == {"abc", "abcdef"}
PasswordLen(p) == IF p = "abc" THEN 3 ELSE 6
TodoBodies == {[title |-> "t1", description |-> "d1"],
               [title |-> "t2", description |-> "d2"]}
\* X-CSRF-Token header of a request: not sent, sent with a token that does
\* not verify (bad signature or too old), sent with a token that verifies.
CsrfHeaders == {"absent", "invalid", "valid"}

\* ------------------------------------------------------- auth_utils.py
JWT_KEY == "JWT_KEY"
OTHER_KEY == "OTHER_KEY"
TTL == 5 * 60

Text(s) == [kind |-> "text", text |-> s]
Bearer == Text("Bearer")

\* A cookie of the request or a Set-Cookie of the response: absent, or a
\* string value (a sequence of words).
NoCookie == [present |-> FALSE, value |-> << >>]
Cookie(v) == [present |-> TRUE, value |-> v]
BearerCookie(token) == Cookie(<<Bearer, token>>)

\* What a check of auth_utils gives: the subject (ok) or the HTTPException
\* raised, the token issued if any, and the calls made on the way, in order.
Result(ok, status_code, detail, sub, new_token, calls) ==
    [ok |-> ok, status_code |-> status_code, detail |-> detail, sub |-> sub,
     new_token |-> new_token, calls |-> calls]
NoToken == Text("")

\* raise HTTPException(status_code, detail)
HTTPException(status_code, detail) ==
    Result(FALSE, status_code, detail, "", NoToken, << >>)
Subject(sub) == Result(TRUE, "", "", sub, NoToken, << >>)
Called(name, r) == [r EXCEPT !.calls = <<name>> \o @]

generate_hashed_pw(password) == [scheme |-> "bcrypt", plain |-> password]

verify_password(plain_pw, hashed_pw) == hashed_pw.plain = plain_pw

\* jwt.encode of {sub, iat: now, exp: now + 5 minutes} with HS256: iat and
\* exp are written as whole seconds, and the token text is a function of
\* the payload and the key.  t is datetime.utcnow().
encode_jwt_no_ttl(email, t) ==
    [kind |-> "jwt", sub |-> email, iat |-> t, exp |-> t, key |-> JWT_KEY]

encode_jwt(email, t) ==
    [kind |-> "jwt", sub |-> email, iat |-> t, exp |-> t + TTL, key |-> JWT_KEY]

\* jwt.decode: structure, then signature, then expiry (exp <= now).
\* ExpiredSignatureError is an InvalidTokenError: the order of the except
\* clauses decides the message.
decode_jwt_expired_as_invalid(token, t) ==
    IF Len(token) # 1 \/ token[1].kind # "jwt"
    THEN HTTPException("401", "Invalid JWT token")
    ELSE IF token[1].key # JWT_KEY
    THEN HTTPException("401", "Invalid JWT token")
    ELSE IF token[1].exp <= t
    THEN HTTPException("401", "Invalid JWT token")
    ELSE Subject(token[1].sub)

decode_jwt_exact_expiry(token, t) ==
    IF Len(token) # 1 \/ token[1].kind # "jwt"
    THEN HTTPException("401", "Invalid JWT token")
    ELSE IF token[1].key # JWT_KEY
    THEN HTTPException("401", "Invalid JWT token")
    ELSE IF token[1].exp = t
    THEN HTTPException("401", "JWT token has expired")
    ELSE Subject(token[1].sub)

\* Variant: the expiry is read before the signature is verified.
decode_jwt_expiry_first(token, t) ==
    IF Len(token) # 1 \/ token[1].kind # "jwt"
    THEN HTTPException("401", "Invalid JWT token")
    ELSE IF token[1].exp <= t
    THEN HTTPException("401", "JWT token has expired")
    ELSE IF token[1].key # JWT_KEY
    THEN HTTPException("401", "Invalid JWT token")
    ELSE Subject(token[1].sub)

decode_jwt(token, t) ==
    IF Len(token) # 1 \/ token[1].kind # "jwt"
    THEN HTTPException("401", "Invalid JWT token")
    ELSE IF token[1].key # JWT_KEY
    THEN HTTPException("401", "Invalid JWT token")
    ELSE IF token[1].exp <= t
    THEN HTTPException("401", "JWT token has expired")
    ELSE Subject(token[1].sub)

\* str.partition(" ")[2]: what follows the first space, "" if there is none.
partition(s) == IF Len(s) <= 1 THEN << >> ELSE Tail(s)

verify_jwt_missing_as_401(cookie, t) ==
    IF ~cookie.present
    THEN HTTPException("401", "No JWT exist: may not set yet or deleted.")
    ELSE Called("decode_jwt", decode_jwt(partition(cookie.value), t))

\* Variant: the server remembers the token a logout request bore and
\* refuses it afterwards.
verify_jwt_revoked(cookie, t) ==
    IF ~cookie.present
    THEN HTTPException("404", "No JWT exist: may not set yet or deleted.")
    ELSE IF resp.endpoint = "logout" /\ cookie = resp.cookie
    THEN Called("decode_jwt", HTTPException("401", "Invalid JWT token"))
    ELSE Called("decode_jwt", decode_jwt(partition(cookie.value), t))

\* Variant: the word before the first space has to be "Bearer".
verify_jwt_bearer_only(cookie, t) ==
    IF ~cookie.present
    THEN HTTPException("404", "No JWT exist: may not set yet or deleted.")
    ELSE IF Len(cookie.value) = 0 \/ cookie.value[1] # Bearer
    THEN Called("decode_jwt", HTTPException("401", "Invalid JWT token"))
    ELSE Called("decode_jwt", decode_jwt(partition(cookie.value), t))

verify_jwt(cookie, t) ==
    IF ~cookie.present
    THEN HTTPException("404", "No JWT exist: may not set yet or deleted.")
    ELSE Called("decode_jwt", decode_jwt(partition(cookie.value), t))

\* Variant: the replacement keeps the expiry of the token presented.
verify_update_jwt_keep_exp(cookie, t) ==
    LET v == verify_jwt(cookie, t)
    IN  IF ~v.ok THEN v
        ELSE [v EXCEPT !.new_token =
                           [encode_jwt(v.sub, t) EXCEPT
                               !.exp = partition(cookie.value)[1].exp],
                       !.calls = @ \o <<"encode_jwt">>]

\* Variant: the token presented is handed back as the replacement.
verify_update_jwt_reuse(cookie, t) ==
    LET v == verify_jwt(cookie, t)
    IN  IF ~v.ok THEN v
        ELSE [v EXCEPT !.new_token = partition(cookie.value)[1],
                       !.calls = @ \o <<"encode_jwt">>]

verify_update_jwt(cookie, t) ==
    LET v == verify_jwt(cookie, t)
    IN  IF ~v.ok THEN v
        ELSE [v EXCEPT !.new_token = encode_jwt(v.sub, t),
                       !.calls = @ \o <<"encode_jwt">>]

\* fastapi_csrf_protect: get_csrf_from_headers raises when the header is
\* missing, validate_csrf when the token does not verify.
CsrfProtectError(detail) ==
    Result(FALSE, "CsrfProtectError", detail, "", NoToken, << >>)

get_csrf_from_headers(headers) ==
    IF headers = "absent" THEN CsrfProtectError("MissingTokenError")
    ELSE Subject("")

validate_csrf(csrf_token) ==
    IF csrf_token # "valid" THEN CsrfProtectError("TokenValidationError")
    ELSE Subject("")

\* The CSRF check of signup, login and the mutating todo handlers.
csrf_check(headers) ==
    LET g == Called("get_csrf_from_headers", get_csrf_from_headers(headers))
    IN  IF ~g.ok THEN g
        ELSE [validate_csrf(headers) EXCEPT !.calls = g.calls \o <<"validate_csrf">>]

\* Variant: the session is verified before the CSRF header.
verify_csrf_update_jwt_session_first(cookie, headers, t) ==
    LET v == verify_update_jwt(cookie, t)
        c == csrf_check(headers)
    IN  IF ~v.ok THEN v
        ELSE IF ~c.ok THEN [c EXCEPT !.calls = v.calls \o @]
        ELSE [v EXCEPT !.calls = @ \o c.calls]

verify_csrf_update_jwt(cookie, headers, t) ==
    LET c == csrf_check(headers)
        v == verify_update_jwt(cookie, t)
    IN  IF ~c.ok THEN c
        ELSE [v EXCEPT !.calls = c.calls \o @]

\* --------------------------------------------------------- database.py
\* The id of a request path: the hex string of the n-th ObjectId, or a
\* string that is no ObjectId.
Oid(n) == [hex |-> TRUE, n |-> n]
BadId == [hex |-> FALSE, n |-> 0]
PathIds == {Oid(n) : n \in 1..MaxTodos} \cup {BadId}

\* What a database function gives back: a dict, True, False, or an
\* exception that no handler catches.
Dict(d) == [kind |-> "dict", value |-> d]
False == [kind |-> "False", value |-> << >>]
True == [kind |-> "True", value |-> << >>]
Unhandled(e) == [kind |-> "raise", value |-> e]

todo_serializer(todo) ==
    [id |-> todo._id, title |-> todo.title, description |-> todo.description]

user_serializer(user) == [id |-> user._id, email |-> user.email]

\* collection.find_one({field: value}): the set of matching documents
\* (find_one gives one of them, or None when the set is empty).
find_id(collection, id) == {d \in collection : d._id = id}
find_email(collection, email) == {d \in collection : d.email = email}

\* Each function gives [res, todo]: its result and the collection after it.
db_create_todo(todo, oid, data) ==
    LET doc == [_id |-> Oid(oid), title |-> data.title,
                description |-> data.description]
    IN  [res |-> Dict(todo_serializer(doc)), todo |-> todo \cup {doc}]

db_get_single_todo(todo, id) ==
    IF ~id.hex THEN [res |-> Unhandled("InvalidId"), todo |-> todo]
    ELSE IF find_id(todo, id) # {}
    THEN [res |-> Dict(todo_serializer(CHOOSE d \in find_id(todo, id) : TRUE)),
          todo |-> todo]
    ELSE [res |-> False, todo |-> todo]

db_update_todo(todo, id, data) ==
    IF ~id.hex THEN [res |-> Unhandled("InvalidId"), todo |-> todo]
    ELSE IF find_id(todo, id) # {}
    THEN LET doc == [_id |-> id, title |-> data.title,
                     description |-> data.description]
         IN  [res |-> Dict(todo_serializer(doc)),
              todo |-> (todo \ find_id(todo, id)) \cup {doc}]
    ELSE [res |-> False, todo |-> todo]

db_delete_todo(todo, id) ==
    IF ~id.hex THEN [res |-> Unhandled("InvalidId"), todo |-> todo]
    ELSE IF find_id(todo, id) # {}
    THEN [res |-> True, todo |-> todo \ find_id(todo, id)]
    ELSE [res |-> False, todo |-> todo]

\* Variant: the length of the password is checked before the overlap.
db_signup_password_first(user, data) ==
    IF PasswordLen(data.password) < 6
    THEN [res |-> HTTPException("401", "Password is too short"), user |-> user]
    ELSE IF find_email(user, data.email) # {}
    THEN [res |-> HTTPException("401", "User already exists"), user |-> user]
    ELSE LET doc == [_id |-> Cardinality(user) + 1, email |-> data.email,
                     password |-> generate_hashed_pw(data.password)]
         IN  [res |-> Subject(doc.email), user |-> user \cup {doc}]

\* Gives [res, user]: the serialized user or the HTTPException, and the
\* collection after it.
db_signup(user, data) ==
    IF find_email(user, data.email) # {}
    THEN [res |-> HTTPException("401", "User already exists"), user |-> user]
    ELSE IF PasswordLen(data.password) < 6
    THEN [res |-> HTTPException("401", "Password is too short"), user |-> user]
    ELSE LET doc == [_id |-> Cardinality(user) + 1, email |-> data.email,
                     password |-> generate_hashed_pw(data.password)]
         IN  [res |-> Subject(doc.email), user |-> user \cup {doc}]

\* Variant: the password is not verified.
db_login_no_password_check(user, data, t) ==
    LET found == find_email(user, data.email)
    IN  IF found = {}
        THEN HTTPException("401", "Invalid credentials")
        ELSE [Subject(data.email) EXCEPT
                 !.new_token = encode_jwt((CHOOSE d \in found : TRUE).email, t),
                 !.calls = <<"encode_jwt">>]

\* Gives the token (new_token of an ok result) or the HTTPException.
db_login(user, data, t) ==
    LET found == find_email(user, data.email)
    IN  IF \/ found = {}
           \/ ~verify_password(data.password,
                               (CHOOSE d \in found : TRUE).password)
        THEN HTTPException("401", "Invalid credentials")
        ELSE [Subject(data.email) EXCEPT
                 !.new_token = encode_jwt((CHOOSE d \in found : TRUE).email, t),
                 !.calls = <<"encode_jwt">>]

\* ------------------------------------------------------------- routers
\* What a handler produces.  subject, new_token and calls are those of the
\* checks the handler made; res is the kind of the database result it got
\* ("none" when it did not reach the database).
Response(status_code, detail, set_cookie, a, res) ==
    [status_code |-> status_code, detail |-> detail, set_cookie |-> set_cookie,
     calls |-> a.calls, subject |-> a.sub, new_token |-> a.new_token,
     res |-> res]

\* The handler returns: FastAPI builds the response from the returned value
\* and copies the status code and the headers (Set-Cookie) of the injected
\* Response parameter, sub_response, into it.
Returned(sub_response, status_code, a, res) ==
    Response(status_code, "", sub_response, a, res)

\* Variant: the error response keeps the headers of the injected Response.
Raised_keeping_headers(sub_response, exc, a, res) ==
    Response(exc.status_code, exc.detail, sub_response, a, res)

\* The handler raises HTTPException (or CsrfProtectError): the response is
\* built by the exception handler from the exception alone; what was set on
\* the injected Response parameter is not part of it.
Raised(sub_response, exc, a, res) ==
    Response(exc.status_code, exc.detail, NoCookie, a, res)

\* Any other exception leaves the handler: 500.
ServerError(e, a, res) ==
    Response("500", e, NoCookie, a, res)

\* response.set_cookie(key="access_token", value=f"Bearer {token}", ...)
set_cookie(token) == BearerCookie(token)

\* Each handler gives [out, user or todo]: its response and the collection
\* after it.
signup(user, headers, data) ==
    LET c == csrf_check(headers)
        d == db_signup(user, data)
    IN  IF ~c.ok THEN [out |-> Raised(NoCookie, c, c, "none"), user |-> user]
        ELSE IF ~d.res.ok
        THEN [out |-> Raised(NoCookie, d.res, c, "raise"), user |-> user]
        ELSE [out |-> Returned(NoCookie, "201", [c EXCEPT !.sub = d.res.sub], "dict"),
              user |-> d.user]

login(user, headers, data, t) ==
    LET c == csrf_check(headers)
        d == db_login(user, data, t)
    IN  IF ~c.ok THEN Raised(NoCookie, c, c, "none")
        ELSE IF ~d.ok THEN Raised(NoCookie, d, c, "raise")
        ELSE Returned(set_cookie(d.new_token), "200",
                      [d EXCEPT !.calls = c.calls \o @], "str")

\* def logout(request, Request, response: Response, ...): request and
\* Request carry no annotation, so FastAPI reads both from the query string
\* as required parameters; request is then a str, and request.headers
\* raises AttributeError.  query: are both parameters in the query string.
logout(query, headers) ==
    IF ~query
    THEN Response("422", "field required", NoCookie, Subject(""), "none")
    ELSE ServerError("AttributeError", Subject(""), "none")

get_user_refresh_jwt(cookie, t) ==
    LET a == verify_update_jwt(cookie, t)
    IN  IF ~a.ok THEN Raised(NoCookie, a, a, "none")
        ELSE Returned(set_cookie(a.new_token), "200", a, "none")

\* The todo handlers after their first line: a is what the session (and
\* CSRF) check of the first line gave.
create_todo_await(a, todo, oid, data) ==
    LET d == db_create_todo(todo, oid, data)
        sub_response == set_cookie(a.new_token)
    IN  IF ~a.ok THEN [out |-> Raised(NoCookie, a, a, "none"), todo |-> todo]
        ELSE IF d.res.kind = "dict"
        THEN [out |-> Returned(sub_response, "201", a, d.res.kind), todo |-> d.todo]
        ELSE [out |-> Raised(sub_response,
                             HTTPException("404", "Create task failed."),
                             a, d.res.kind),
              todo |-> d.todo]

get_todos_await(a, todo) ==
    IF ~a.ok THEN [out |-> Raised(NoCookie, a, a, "none"), todo |-> todo]
    ELSE [out |-> Returned(NoCookie, "200", a, "list"), todo |-> todo]

get_single_todo_await(a, todo, id) ==
    LET d == db_get_single_todo(todo, id)
        sub_response == set_cookie(a.new_token)
    IN  IF ~a.ok THEN [out |-> Raised(NoCookie, a, a, "none"), todo |-> todo]
        ELSE IF d.res.kind = "raise"
        THEN [out |-> ServerError(d.res.value, a, d.res.kind), todo |-> d.todo]
        ELSE IF d.res.kind = "dict"
        THEN [out |-> Returned(sub_response, "200", a, d.res.kind), todo |-> d.todo]
        ELSE [out |-> Raised(sub_response,
                             HTTPException("404", "Task of ID doesn't exist."),
                             a, d.res.kind),
              todo |-> d.todo]

update_todo_await(a, todo, id, data) ==
    LET d == db_update_todo(todo, id, data)
        sub_response == set_cookie(a.new_token)
    IN  IF ~a.ok THEN [out |-> Raised(NoCookie, a, a, "none"), todo |-> todo]
        ELSE IF d.res.kind = "raise"
        THEN [out |-> ServerError(d.res.value, a, d.res.kind), todo |-> d.todo]
        ELSE IF d.res.kind = "dict"
        THEN [out |-> Returned(sub_response, "200", a, d.res.kind), todo |-> d.todo]
        ELSE [out |-> Raised(sub_response,
                             HTTPException("404", "Update task failed."),
                             a, d.res.kind),
              todo |-> d.todo]

delete_todo_await(a, todo, id) ==
    LET d == db_delete_todo(todo, id)
        sub_response == set_cookie(a.new_token)
    IN  IF ~a.ok THEN [out |-> Raised(NoCookie, a, a, "none"), todo |-> todo]
        ELSE IF d.res.kind = "raise"
        THEN [out |-> ServerError(d.res.value, a, d.res.kind), todo |-> d.todo]
        ELSE IF d.res.kind = "True"
        THEN [out |-> Returned(sub_response, "200", a, d.res.kind), todo |-> d.todo]
        ELSE [out |-> Raised(sub_response,
                             HTTPException("404", "Delete task failed."),
                             a, d.res.kind),
              todo |-> d.todo]

create_todo(cookie, headers, t, todo, oid, data) ==
    create_todo_await(verify_csrf_update_jwt(cookie, headers, t), todo, oid, data)

\* Variant: GET /api/todo rotates the token as the other handlers do.
get_todos_rotating(cookie, t, todo) ==
    LET a == verify_update_jwt(cookie, t)
    IN  IF ~a.ok THEN [out |-> Raised(NoCookie, a, a, "none"), todo |-> todo]
        ELSE [out |-> Returned(set_cookie(a.new_token), "200", a, "list"),
              todo |-> todo]

get_todos(cookie, t, todo) ==
    get_todos_await(verify_jwt(cookie, t), todo)

get_single_todo(cookie, t, todo, id) ==
    get_single_todo_await(verify_update_jwt(cookie, t), todo, id)

update_todo(cookie, headers, t, todo, id, data) ==
    update_todo_await(verify_csrf_update_jwt(cookie, headers, t), todo, id, data)

delete_todo(cookie, headers, t, todo, id) ==
    delete_todo_await(verify_csrf_update_jwt(cookie, headers, t), todo, id)

\* -------------------------------------------------------- state machine
\* A token signed with another key.
Forged ==
    [kind |-> "jwt", sub |-> "a@x.io", iat |-> 0, exp |-> TTL, key |-> OTHER_KEY]

\* The JSON body of a signup or login request (UserBody); NoBody on the
\* other endpoints.
NoBody == [email |-> "", password |-> ""]

Request(endpoint, cookie, headers) ==
    [endpoint |-> endpoint, cookie |-> cookie, csrf |-> headers, t |-> now,
     body |-> NoBody]

UserRequest(endpoint, cookie, headers, user) ==
    [Request(endpoint, cookie, headers) EXCEPT !.body = user]

NoResponse ==
    [endpoint |-> "none", cookie |-> NoCookie, csrf |-> "absent", t |-> 0,
     body |-> NoBody, status_code |-> "", detail |-> "", set_cookie |-> NoCookie,
     calls |-> << >>, subject |-> "", new_token |-> NoToken, res |-> "none"]

Exchange(req, out) ==
    [endpoint |-> req.endpoint, cookie |-> req.cookie, csrf |-> req.csrf,
     t |-> req.t, body |-> req.body,
     status_code |-> out.status_code, detail |-> out.detail,
     set_cookie |-> out.set_cookie, calls |-> out.calls,
     subject |-> out.subject, new_token |-> out.new_token, res |-> out.res]

\* The response reaches the client, which stores the cookie it sets.
Deliver(req, out) ==
    /\ resp' = Exchange(req, out)
    /\ jar' = IF out.set_cookie.present THEN out.set_cookie ELSE jar

\* In Spec the client makes one request at a time: each handler runs from
\* the request to the response in one step.  SpecConcurrent, below, lets
\* requests overlap.
Init ==
    /\ now = 0
    /\ collection_user = {}
    /\ collection_todo = {}
    /\ last_oid = 0
    /\ jar = NoCookie
    /\ resp = NoResponse
    /\ inflight = EmptyBag

Tick ==
    /\ now < MaxTime
    /\ now' = now + TickSeconds
    /\ resp' = NoResponse
    /\ UNCHANGED <<collection_user, collection_todo, last_oid, jar, inflight>>

\* The client loses its cookie (the browser session ends).
DropCookie ==
    /\ jar # NoCookie
    /\ jar' = NoCookie
    /\ resp' = NoResponse
    /\ UNCHANGED <<now, collection_user, collection_todo, last_oid, inflight>>

\* The client replaces its cookie by one carrying the forged token.
ForgeCookie ==
    /\ jar # BearerCookie(Forged)
    /\ jar' = BearerCookie(Forged)
    /\ resp' = NoResponse
    /\ UNCHANGED <<now, collection_user, collection_todo, last_oid, inflight>>

Signup ==
    \E h \in CsrfHeaders, e \in Emails, p \in Passwords :
        LET r == signup(collection_user, h, [email |-> e, password |-> p])
        IN  /\ collection_user' = r.user
            /\ Deliver(UserRequest("signup", jar, h,
                                   [email |-> e, password |-> p]), r.out)
            /\ UNCHANGED <<now, collection_todo, last_oid, inflight>>

Login ==
    \E h \in CsrfHeaders, e \in Emails, p \in Passwords :
        /\ Deliver(UserRequest("login", jar, h, [email |-> e, password |-> p]),
                   login(collection_user, h, [email |-> e, password |-> p], now))
        /\ UNCHANGED <<now, collection_user, collection_todo, last_oid, inflight>>

Logout ==
    \E h \in CsrfHeaders, q \in BOOLEAN :
        /\ Deliver(Request("logout", jar, h), logout(q, h))
        /\ UNCHANGED <<now, collection_user, collection_todo, last_oid, inflight>>

GetUser ==
    /\ Deliver(Request("get_user", jar, "absent"), get_user_refresh_jwt(jar, now))
    /\ UNCHANGED <<now, collection_user, collection_todo, last_oid, inflight>>

CreateTodo ==
    \E h \in CsrfHeaders, data \in TodoBodies :
        LET r == create_todo(jar, h, now, collection_todo, last_oid + 1, data)
        IN  /\ r.todo # collection_todo => last_oid < MaxTodos
            /\ collection_todo' = r.todo
            /\ last_oid' = IF r.todo # collection_todo THEN last_oid + 1 ELSE last_oid
            /\ Deliver(Request("create_todo", jar, h), r.out)
            /\ UNCHANGED <<now, collection_user, inflight>>

GetTodos ==
    /\ Deliver(Request("get_todos", jar, "absent"),
               get_todos(jar, now, collection_todo).out)
    /\ UNCHANGED <<now, collection_user, collection_todo, last_oid, inflight>>

GetSingleTodo ==
    \E id \in PathIds :
        /\ Deliver(Request("get_single_todo", jar, "absent"),
                   get_single_todo(jar, now, collection_todo, id).out)
        /\ UNCHANGED <<now, collection_user, collection_todo, last_oid, inflight>>

UpdateTodo ==
    \E h \in CsrfHeaders, id \in PathIds, data \in TodoBodies :
        LET r == update_todo(jar, h, now, collection_todo, id, data)
        IN  /\ collection_todo' = r.todo
            /\ Deliver(Request("update_todo", jar, h), r.out)
            /\ UNCHANGED <<now, collection_user, last_oid, inflight>>

DeleteTodo ==
    \E h \in CsrfHeaders, id \in PathIds :
        LET r == delete_todo(jar, h, now, collection_todo, id)
        IN  /\ collection_todo' = r.todo
            /\ Deliver(Request("delete_todo", jar, h), r.out)
            /\ UNCHANGED <<now, collection_user, last_oid, inflight>>

Next ==
    \/ Tick
    \/ DropCookie
    \/ ForgeCookie
    \/ Signup
    \/ Login
    \/ Logout
    \/ GetUser
    \/ CreateTodo
    \/ GetTodos
    \/ GetSingleTodo
    \/ UpdateTodo
    \/ DeleteTodo

Spec == Init /\ [][Next]_vars

\* Concurrent requests.  get_single_todo runs up to its await (the session
\* check and the issue of the new token) when the request arrives, and from
\* the database call to the response later; other requests run in between.
\* The request carries the cookie the client holds, or the cookie of a
\* request still in flight (sent before a response replaced it).
BeginCookies == {jar} \cup {r.req.cookie : r \in BagToSet(inflight)}
\* The ids of the concurrent requests: ObjectIds given out by insert_one,
\* and one never given out.
BeginIds == {Oid(n) : n \in 1..(MaxTodos + 1)}

BeginGetSingleTodo ==
    /\ BagCardinality(inflight) < MaxInflight
    /\ \E c \in BeginCookies, id \in BeginIds :
           LET a == verify_update_jwt(c, now)
               req == Request("get_single_todo", c, "absent")
           IN  IF a.ok
               THEN /\ inflight' = inflight (+) SetToBag({[req |-> req, id |-> id, a |-> a]})
                    /\ resp' = NoResponse
                    /\ jar' = jar
               ELSE /\ Deliver(req, get_single_todo_await(a, collection_todo, id).out)
                    /\ inflight' = inflight
    /\ UNCHANGED <<now, collection_user, collection_todo, last_oid>>

FinishGetSingleTodo ==
    \E r \in BagToSet(inflight) :
        /\ Deliver(r.req, get_single_todo_await(r.a, collection_todo, r.id).out)
        /\ inflight' = inflight (-) SetToBag({r})
        /\ UNCHANGED <<now, collection_user, collection_todo, last_oid>>

\* The process starts on a database in which a user has signed up and a
\* todo was created.
InitConcurrent ==
    /\ now = 0
    /\ collection_user =
           db_signup({}, [email |-> "a@x.io", password |-> "abcdef"]).user
    /\ collection_todo =
           db_create_todo({}, 1, [title |-> "t1", description |-> "d1"]).todo
    /\ last_oid = 1
    /\ jar = NoCookie
    /\ resp = NoResponse
    /\ inflight = EmptyBag

NextConcurrent ==
    \/ Tick
    \/ Login
    \/ BeginGetSingleTodo
    \/ FinishGetSingleTodo

SpecConcurrent == InitConcurrent /\ [][NextConcurrent]_vars

\* Concurrent signups.  db_signup gives up the event loop at each await:
\* at find_one({"email": email}), at insert_one and at the find_one of the
\* inserted user; the steps of other requests run in between.
\* overlap_user is the set of documents find_one matched (None when empty).
db_signup_find_one(user, data) == find_email(user, data.email)

\* The two checks and insert_one, on the overlap_user read earlier.  Gives
\* [res, user, inserted_id].
db_signup_insert_one(user, data, overlap_user) ==
    IF overlap_user # {}
    THEN [res |-> HTTPException("401", "User already exists"), user |-> user,
          inserted_id |-> 0]
    ELSE IF PasswordLen(data.password) < 6
    THEN [res |-> HTTPException("401", "Password is too short"), user |-> user,
          inserted_id |-> 0]
    ELSE LET doc == [_id |-> Cardinality(user) + 1, email |-> data.email,
                     password |-> generate_hashed_pw(data.password)]
         IN  [res |-> Subject(doc.email), user |-> user \cup {doc},
              inserted_id |-> doc._id]

\* find_one({"_id": user.inserted_id}) and user_serializer.
db_signup_return(user, inserted_id) ==
    Dict(user_serializer(CHOOSE d \in user : d._id = inserted_id))

\* The request arrives: CSRF check, then db_signup up to its first await.
SignupFindOne ==
    /\ BagCardinality(inflight) < MaxInflight
    /\ \E h \in CsrfHeaders, e \in Emails, p \in Passwords :
           LET data == [email |-> e, password |-> p]
               c == csrf_check(h)
               req == UserRequest("signup", jar, h, data)
           IN  IF ~c.ok
               THEN /\ Deliver(req, Raised(NoCookie, c, c, "none"))
                    /\ inflight' = inflight
               ELSE /\ inflight' = inflight (+) SetToBag({
                            [req |-> req, pc |-> "insert_one", a |-> c,
                             overlap_user |->
                                 db_signup_find_one(collection_user, data),
                             inserted_id |-> 0]})
                    /\ resp' = NoResponse
                    /\ jar' = jar
    /\ UNCHANGED <<now, collection_user, collection_todo, last_oid>>

SignupInsertOne ==
    \E r \in BagToSet(inflight) :
        /\ r.pc = "insert_one"
        /\ LET d == db_signup_insert_one(collection_user, r.req.body,
                                         r.overlap_user)
           IN  IF ~d.res.ok
               THEN /\ Deliver(r.req, Raised(NoCookie, d.res, r.a, "raise"))
                    /\ inflight' = inflight (-) SetToBag({r})
                    /\ collection_user' = collection_user
               ELSE /\ collection_user' = d.user
                    /\ inflight' = (inflight (-) SetToBag({r})) (+) SetToBag({
                            [r EXCEPT !.pc = "find_one",
                                      !.inserted_id = d.inserted_id]})
                    /\ resp' = NoResponse
                    /\ jar' = jar
        /\ UNCHANGED <<now, collection_todo, last_oid>>

SignupReturn ==
    \E r \in BagToSet(inflight) :
        /\ r.pc = "find_one"
        /\ LET new_user == db_signup_return(collection_user, r.inserted_id)
           IN  Deliver(r.req,
                       Returned(NoCookie, "201",
                                [r.a EXCEPT !.sub = new_user.value.email],
                                new_user.kind))
        /\ inflight' = inflight (-) SetToBag({r})
        /\ UNCHANGED <<now, collection_user, collection_todo, last_oid>>

NextSignup ==
    \/ SignupFindOne
    \/ SignupInsertOne
    \/ SignupReturn

SpecSignup == Init /\ [][NextSignup]_vars

\* Concurrent updates and deletes.  db_update_todo gives up the event loop
\* at find_one, at update_one and at the second find_one; db_delete_todo at
\* find_one and at delete_one.  A function that returns without a further
\* await does so in the step of its last await.
db_update_todo_find_one(todo, id) == find_id(todo, id)

\* update_one({"_id": ObjectId(id)}, {"$set": data}).  Gives
\* [matched_count, todo].
db_update_todo_update_one(todo, id, data) ==
    [matched_count |-> Cardinality(find_id(todo, id)),
     todo |-> (todo \ find_id(todo, id))
                  \cup {[_id |-> d._id, title |-> data.title,
                         description |-> data.description] :
                            d \in find_id(todo, id)}]

\* new_todo = find_one(...); return todo_serializer(new_todo): when
\* new_todo is None, todo["_id"] raises TypeError.
db_update_todo_return(todo, id) ==
    IF find_id(todo, id) # {}
    THEN Dict(todo_serializer(CHOOSE d \in find_id(todo, id) : TRUE))
    ELSE Unhandled("TypeError")

db_delete_todo_find_one(todo, id) == find_id(todo, id)

\* delete_one({"_id": ObjectId(id)}).  Gives [deleted_count, todo].
db_delete_todo_delete_one(todo, id) ==
    [deleted_count |-> Cardinality(find_id(todo, id)),
     todo |-> todo \ find_id(todo, id)]

\* update_todo and delete_todo from the return of the database function:
\* a is what the check of the first line gave, res what the function gave.
update_todo_return(a, res) ==
    IF res.kind = "raise" THEN ServerError(res.value, a, res.kind)
    ELSE IF res.kind = "dict"
    THEN Returned(set_cookie(a.new_token), "200", a, res.kind)
    ELSE Raised(set_cookie(a.new_token),
                HTTPException("404", "Update task failed."), a, res.kind)

delete_todo_return(a, res) ==
    IF res.kind = "raise" THEN ServerError(res.value, a, res.kind)
    ELSE IF res.kind = "True"
    THEN Returned(set_cookie(a.new_token), "200", a, res.kind)
    ELSE Raised(set_cookie(a.new_token),
                HTTPException("404", "Delete task failed."), a, res.kind)

\* The body of a request that has none.
NoTodoBody == [title |-> "", description |-> ""]

Await(req, id, data, a, pc) ==
    [req |-> req, id |-> id, data |-> data, a |-> a, pc |-> pc]
Resume(r, pc) == (inflight (-) SetToBag({r})) (+) SetToBag({[r EXCEPT !.pc = pc]})

\* PUT /api/todo/{id} arrives: the checks of the first line, then
\* db_update_todo up to the await of update_one.
UpdateFindOne ==
    /\ BagCardinality(inflight) < MaxInflight
    /\ \E h \in CsrfHeaders, id \in BeginIds, data \in TodoBodies :
           LET a == verify_csrf_update_jwt(jar, h, now)
               req == Request("update_todo", jar, h)
           IN  IF ~a.ok
               THEN /\ Deliver(req, Raised(NoCookie, a, a, "none"))
                    /\ inflight' = inflight
               ELSE IF db_update_todo_find_one(collection_todo, id) = {}
               THEN /\ Deliver(req, update_todo_return(a, False))
                    /\ inflight' = inflight
               ELSE /\ inflight' = inflight (+)
                            SetToBag({Await(req, id, data, a, "update_one")})
                    /\ resp' = NoResponse
                    /\ jar' = jar
    /\ UNCHANGED <<now, collection_user, collection_todo, last_oid>>

UpdateUpdateOne ==
    \E r \in BagToSet(inflight) :
        /\ r.req.endpoint = "update_todo"
        /\ r.pc = "update_one"
        /\ LET u == db_update_todo_update_one(collection_todo, r.id, r.data)
           IN  /\ collection_todo' = u.todo
               /\ IF u.matched_count > 0
                  THEN /\ inflight' = Resume(r, "find_one")
                       /\ resp' = NoResponse
                       /\ jar' = jar
                  ELSE /\ Deliver(r.req, update_todo_return(r.a, False))
                       /\ inflight' = inflight (-) SetToBag({r})
        /\ UNCHANGED <<now, collection_user, last_oid>>

UpdateReturn ==
    \E r \in BagToSet(inflight) :
        /\ r.req.endpoint = "update_todo"
        /\ r.pc = "find_one"
        /\ Deliver(r.req,
                   update_todo_return(r.a,
                       db_update_todo_return(collection_todo, r.id)))
        /\ inflight' = inflight (-) SetToBag({r})
        /\ UNCHANGED <<now, collection_user, collection_todo, last_oid>>

\* DELETE /api/todo/{id} arrives: the checks of the first line, then
\* db_delete_todo up to the await of delete_one.
DeleteFindOne ==
    /\ BagCardinality(inflight) < MaxInflight
    /\ \E h \in CsrfHeaders, id \in BeginIds :
           LET a == verify_csrf_update_jwt(jar, h, now)
               req == Request("delete_todo", jar, h)
           IN  IF ~a.ok
               THEN /\ Deliver(req, Raised(NoCookie, a, a, "none"))
                    /\ inflight' = inflight
               ELSE IF db_delete_todo_find_one(collection_todo, id) = {}
               THEN /\ Deliver(req, delete_todo_return(a, False))
                    /\ inflight' = inflight
               ELSE /\ inflight' = inflight (+)
                            SetToBag({Await(req, id, NoTodoBody, a, "delete_one")})
                    /\ resp' = NoResponse
                    /\ jar' = jar
    /\ UNCHANGED <<now, collection_user, collection_todo, last_oid>>

DeleteDeleteOne ==
    \E r \in BagToSet(inflight) :
        /\ r.req.endpoint = "delete_todo"
        /\ r.pc = "delete_one"
        /\ LET d == db_delete_todo_delete_one(collection_todo, r.id)
           IN  /\ collection_todo' = d.todo
               /\ Deliver(r.req,
                          delete_todo_return(r.a,
                              IF d.deleted_count > 0 THEN True ELSE False))
        /\ inflight' = inflight (-) SetToBag({r})
        /\ UNCHANGED <<now, collection_user, last_oid>>

\* The process starts on a database in which a user has signed up and a
\* todo was created; the client holds the cookie of a login at time 0.
InitUpdate ==
    /\ now = 0
    /\ collection_user =
           db_signup({}, [email |-> "a@x.io", password |-> "abcdef"]).user
    /\ collection_todo =
           db_create_todo({}, 1, [title |-> "t1", description |-> "d1"]).todo
    /\ last_oid = 1
    /\ jar = set_cookie(encode_jwt("a@x.io", 0))
    /\ resp = NoResponse
    /\ inflight = EmptyBag

NextUpdate ==
    \/ UpdateFindOne
    \/ UpdateUpdateOne
    \/ UpdateReturn
    \/ DeleteFindOne
    \/ DeleteDeleteOne

SpecUpdate == InitUpdate /\ [][NextUpdate]_vars

\* The session check on cookies of any shape.  The client sends whatever
\* access_token cookie it likes: none, the empty value, a value without a
\* space, a word followed by a token, or a value with two spaces; the token
\* is one the process issued, a forged one, or text that is no JWT.
Prefixes == {Bearer, Text("Basic")}
CookieTokens ==
    {encode_jwt(e, 0) : e \in Emails} \cup {Forged, Text("garbage")}
CookieValues ==
    {<< >>}
        \cup {<<w>> : w \in Prefixes \cup CookieTokens}
        \cup {<<w, k>> : w \in Prefixes, k \in CookieTokens}
        \cup {<<Bearer, k, Text("x")>> : k \in CookieTokens}

InitCookies ==
    /\ now = 0
    /\ collection_user = {}
    /\ collection_todo =
           db_create_todo({}, 1, [title |-> "t1", description |-> "d1"]).todo
    /\ last_oid = 1
    /\ jar \in {NoCookie} \cup {Cookie(v) : v \in CookieValues}
    /\ resp = NoResponse
    /\ inflight = EmptyBag

NextCookies ==
    \/ Tick
    \/ GetUser
    \/ GetTodos
    \/ GetSingleTodo

SpecCookies == InitCookies /\ [][NextCookies]_vars

\* ------------------------------------------------------------ properties
Range(seq) == {seq[i] : i \in DOMAIN seq}

\* The cookie carries "<word> <JWT>".
HasToken(cookie) ==
    cookie.present /\ Len(cookie.value) = 2 /\ cookie.value[2].kind = "jwt"
TokenOf(cookie) == cookie.value[2]
\* The JWT of the cookie was signed with the key of the process.
Signed(cookie) == HasToken(cookie) /\ TokenOf(cookie).key = JWT_KEY
\* ... and its expiry has not passed at t / has passed at t.
Fresh(cookie, t) == Signed(cookie) /\ t < TokenOf(cookie).exp
Stale(cookie, t) == Signed(cookie) /\ TokenOf(cookie).exp <= t

Mutating == {"create_todo", "update_todo", "delete_todo"}
Rotating == Mutating \cup {"get_user", "get_single_todo"}
SessionGated == Rotating \cup {"get_todos"}
Success == {"200", "201"}
\* The exchange reached the session check of its handler.
SessionChecked ==
    \/ resp.endpoint \in SessionGated \ Mutating
    \/ resp.endpoint \in Mutating /\ resp.csrf = "valid"
\* The session check of the exchange passed.
SessionPassed == SessionChecked /\ resp.subject \in Emails
\* The token the session check issued is the one the response sets.
RotatedCookie ==
    /\ resp.set_cookie = Cookie(<<Bearer, resp.new_token>>)
    /\ resp.new_token.kind = "jwt"

\* C1: on a mutating todo request whose CSRF header is missing or does not
\* verify, the call fails with the CSRF error (missing header: the missing
\* token error; bad token: the validation error) whatever the session
\* cookie is, no session token is decoded or issued, and no cookie is set.
C1_CsrfBeforeSession ==
    (resp.endpoint \in Mutating /\ resp.csrf # "valid") =>
        /\ resp.status_code = "CsrfProtectError"
        /\ resp.detail = IF resp.csrf = "absent" THEN "MissingTokenError"
                         ELSE "TokenValidationError"
        /\ Range(resp.calls) \cap {"decode_jwt", "encode_jwt"} = {}
        /\ resp.new_token = NoToken
        /\ ~resp.set_cookie.present
\* A request without CSRF header and with a valid session cookie was refused.
C1_Witness ==
    /\ resp.endpoint = "update_todo"
    /\ resp.csrf = "absent"
    /\ Fresh(resp.cookie, resp.t)
    /\ resp.status_code = "CsrfProtectError"

\* C2: a create, update or delete either completes (the database function
\* gave a record, or True) and the response is a success that sets the
\* rotated session cookie, or it fails and the response sets no cookie, so
\* that the client still holds the cookie it sent.
C2_NoPartialSuccess ==
    resp.endpoint \in Mutating =>
        \/ /\ resp.res \in {"dict", "True"}
           /\ resp.status_code \in Success
           /\ RotatedCookie
           /\ jar = resp.set_cookie
        \/ /\ resp.res \notin {"dict", "True"}
           /\ resp.status_code \notin Success
           /\ ~resp.set_cookie.present
           /\ jar = resp.cookie
\* An update passed both checks, issued a token, and failed on the record.
C2_Witness ==
    /\ resp.endpoint = "update_todo"
    /\ resp.res = "False"
    /\ resp.status_code = "404"
    /\ resp.new_token.kind = "jwt"

\* C3: GET /api/todo/{id} with a valid session cookie and an id that is not
\* in the store is answered 404, and the response sets the rotated cookie.
C3_NotFoundCarriesRotatedCookie ==
    (/\ resp.endpoint = "get_single_todo"
     /\ Fresh(resp.cookie, resp.t)
     /\ resp.res = "False") =>
        /\ resp.status_code = "404"
        /\ RotatedCookie

\* C4: a successful verify_update_jwt at time t issues a token with iat = t
\* and exp = t + 5 minutes for the subject of the token presented, whatever
\* the iat and exp of the token presented; the token a response sets is the
\* token issued at the time of that exchange, and every signed token the
\* client holds expires 5 minutes after its own issue.
C4_SlidingExpiry ==
    /\ (resp.endpoint \in Rotating /\ resp.new_token # NoToken) =>
           /\ resp.new_token.iat = resp.t
           /\ resp.new_token.exp = resp.t + TTL
           /\ resp.new_token.sub = TokenOf(resp.cookie).sub
           /\ resp.new_token.key = JWT_KEY
    /\ (resp.endpoint \in Rotating /\ resp.set_cookie.present) =>
           /\ RotatedCookie
           /\ TokenOf(resp.set_cookie).exp = resp.t + TTL
    /\ Signed(jar) => TokenOf(jar).exp = TokenOf(jar).iat + TTL
\* A token that was itself issued after time 0 is rotated later than the
\* first 5 minutes, and the replacement expires 5 minutes after that.
C4_Witness ==
    /\ resp.endpoint = "get_user"
    /\ resp.status_code = "200"
    /\ TokenOf(resp.cookie).iat > 0
    /\ TokenOf(resp.cookie).iat < resp.t
    /\ resp.t >= TTL
    /\ TokenOf(jar).exp = resp.t + TTL

C6_RotationAlwaysDiffers ==
    (resp.endpoint \in Rotating /\ resp.new_token # NoToken) =>
        /\ resp.new_token # TokenOf(resp.cookie)
        /\ resp.new_token.sub = TokenOf(resp.cookie).sub

\* C6 as amended: the token verify_update_jwt issues carries the subject of
\* the token presented, and decodes to it; it differs from the token
\* presented exactly when the rotation happens in a later second than the
\* issue of the token presented (in the same second it is the same token).
C6_RotationDiffersAcrossSeconds ==
    (resp.endpoint \in Rotating /\ resp.new_token # NoToken) =>
        /\ resp.new_token.sub = TokenOf(resp.cookie).sub
        /\ decode_jwt(<<resp.new_token>>, resp.t).sub = resp.subject
        /\ resp.subject = TokenOf(resp.cookie).sub
        /\ (resp.new_token = TokenOf(resp.cookie)) <=>
               (TokenOf(resp.cookie).iat = resp.t)
\* A rotation in the second of the issue gave back an equal token.
C6_Witness ==
    /\ resp.endpoint = "get_user"
    /\ resp.status_code = "200"
    /\ TokenOf(resp.cookie).iat = resp.t
    /\ resp.new_token = TokenOf(resp.cookie)

\* C7: when the session check meets a token signed with the key of the
\* process whose expiry has passed, the call fails with 401 "JWT token has
\* expired": not with the invalid-token error, and not with a success.
C7_ExpiredIsTokenExpired ==
    (SessionChecked /\ Stale(resp.cookie, resp.t)) =>
        /\ resp.status_code = "401"
        /\ resp.detail = "JWT token has expired"
        /\ resp.subject = ""
        /\ resp.new_token = NoToken
        /\ ~resp.set_cookie.present
\* A request presented a signed token after its expiry.
C7_Witness ==
    /\ resp.endpoint = "get_todos"
    /\ Stale(resp.cookie, resp.t)
    /\ resp.t > TokenOf(resp.cookie).exp
    /\ resp.detail = "JWT token has expired"

\* The signed tokens the process can issue, and the cookies carrying them
\* or the forged token.
SignedTokens ==
    {[kind |-> "jwt", sub |-> e, iat |-> t, exp |-> t + TTL, key |-> JWT_KEY] :
        e \in Emails, t \in Times}
TokenCookies == {Cookie(<<Bearer, k>>) : k \in SignedTokens \cup {Forged}}
Failed(cookie, t) == ~verify_jwt(cookie, t).ok

\* C8: a token whose verification fails keeps failing in every later state,
\* whatever happens in between; a request bearing a token that fails gets a
\* cookie only from a successful login, which issues a new token at that
\* time; and a client whose cookie fails holds a cookie that verifies only
\* after such a login.
C8_FailureIsTerminal ==
    [][/\ \A c \in TokenCookies : Failed(c, now) => Failed(c, now')
       /\ (/\ resp'.cookie.present
           /\ Failed(resp'.cookie, resp'.t)
           /\ resp'.set_cookie.present) =>
              /\ resp'.endpoint = "login"
              /\ resp'.status_code = "200"
              /\ TokenOf(resp'.set_cookie).iat = resp'.t
              /\ TokenOf(resp'.set_cookie) # TokenOf(resp'.cookie)
       /\ (jar.present /\ Failed(jar, now) /\ ~Failed(jar', now')) =>
              /\ resp'.endpoint = "login"
              /\ resp'.status_code = "200"
              /\ jar' = resp'.set_cookie]_vars
\* A login succeeded for a client holding an expired token.
C8_Witness ==
    /\ resp.endpoint = "login"
    /\ resp.status_code = "200"
    /\ Stale(resp.cookie, resp.t)
    /\ resp.t > TokenOf(resp.cookie).exp
    /\ ~Failed(jar, now)

\* C10: when the request carries no session cookie, the session check fails
\* with 404 "No JWT exist", no token is decoded or issued and the response
\* sets no cookie; a cookie that is present and does not verify gives 401.
C10_MissingSessionIs404 ==
    /\ (SessionChecked /\ ~resp.cookie.present) =>
           /\ resp.status_code = "404"
           /\ resp.detail = "No JWT exist: may not set yet or deleted."
           /\ resp.calls \in {<< >>, <<"get_csrf_from_headers", "validate_csrf">>}
           /\ ~resp.set_cookie.present
           /\ jar = NoCookie
    /\ (SessionChecked /\ resp.cookie.present /\ resp.subject = "") =>
           /\ resp.status_code = "401"
           /\ ~resp.set_cookie.present
\* GET /api/user without a cookie.
C10_Witness ==
    /\ resp.endpoint = "get_user"
    /\ ~resp.cookie.present
    /\ resp.status_code = "404"
    /\ ~resp.set_cookie.present

\* The token verify_update_jwt owes to a request bearing cookie at time t.
Replacement(cookie, t) ==
    [kind |-> "jwt", sub |-> TokenOf(cookie).sub, iat |-> t, exp |-> t + TTL,
     key |-> JWT_KEY]
\* The cookies in circulation: held by the client, borne by a request in
\* flight or by the last one answered, or issued to a request in flight.
Outstanding ==
    {jar, resp.cookie}
        \cup {r.req.cookie : r \in BagToSet(inflight)}
        \cup {Cookie(<<Bearer, r.a.new_token>>) : r \in BagToSet(inflight)}

\* C9: under every interleaving of requests, each request bearing a token
\* that is signed and unexpired when it arrives passes the session check
\* and gets its own replacement, issued at its own arrival, whether or not
\* another request bearing the same token is in flight or was answered;
\* and every token in circulation that is signed and unexpired verifies.
C9_ConcurrentRequestsSucceed ==
    /\ \A r \in BagToSet(inflight) :
           /\ Fresh(r.req.cookie, r.req.t)
           /\ r.a.ok
           /\ r.a.sub = TokenOf(r.req.cookie).sub
           /\ r.a.new_token = Replacement(r.req.cookie, r.req.t)
    /\ (resp.endpoint = "get_single_todo" /\ Fresh(resp.cookie, resp.t)) =>
           /\ resp.subject = TokenOf(resp.cookie).sub
           /\ resp.new_token = Replacement(resp.cookie, resp.t)
           /\ resp.status_code \in {"200", "404", "500"}
           /\ resp.status_code = "200" => RotatedCookie
    /\ \A c \in Outstanding :
           Fresh(c, now) => /\ verify_jwt(c, now).ok
                            /\ verify_jwt(c, now).sub = TokenOf(c).sub
\* Of two requests bearing the same token, one was answered with a rotated
\* cookie, which the client now holds; the other, which arrived at another
\* time, is in flight with a replacement of its own, and the token both bore
\* still verifies.
C9_Witness ==
    /\ resp.endpoint = "get_single_todo"
    /\ resp.status_code = "200"
    /\ jar = resp.set_cookie
    /\ jar # resp.cookie
    /\ \E r \in BagToSet(inflight) :
           /\ r.req.cookie = resp.cookie
           /\ r.req.t # resp.t
           /\ r.a.new_token # resp.new_token
    /\ verify_jwt(resp.cookie, now).ok

\* C11: for every subject s, the token encode_jwt issues for s decodes to s
\* with the key of the process at the time of issue and at every later time
\* before its 5 minutes have elapsed; the token a login or a rotation
\* issued, read back from the cookie value "Bearer <token>", decodes to the
\* subject of that exchange.
C11_RoundTrip ==
    /\ \A e \in Emails, t \in Times :
           (now <= t /\ t < now + TTL) =>
               decode_jwt(<<encode_jwt(e, now)>>, t) = Subject(e)
    /\ (resp.endpoint \in Rotating \cup {"login"} /\ resp.new_token # NoToken) =>
           /\ resp.subject \in Emails
           /\ decode_jwt(partition(set_cookie(resp.new_token).value), resp.t)
                  = Subject(resp.subject)
\* A login after time 0 set a cookie whose token decodes to its subject.
C11_Witness ==
    /\ resp.endpoint = "login"
    /\ resp.status_code = "200"
    /\ resp.t > 0
    /\ resp.subject \in Emails
    /\ decode_jwt(partition(resp.set_cookie.value), resp.t) = Subject(resp.subject)

\* The token for subject e issued at t, signed with another key.
OtherKey(e, t) == [encode_jwt(e, t) EXCEPT !.key = OTHER_KEY]

\* C12: a token signed with a key other than the key of the process fails
\* decoding with 401 "Invalid JWT token", before and after its expiry: it
\* gives no subject and is not reported as expired; a request bearing such
\* a token is refused with that error, no token is issued and no cookie set.
C12_OtherKeyIsInvalid ==
    /\ \A e \in Emails, t \in Times :
           decode_jwt(<<OtherKey(e, t)>>, now)
               = HTTPException("401", "Invalid JWT token")
    /\ (/\ SessionChecked
        /\ HasToken(resp.cookie)
        /\ TokenOf(resp.cookie).key # JWT_KEY) =>
           /\ resp.status_code = "401"
           /\ resp.detail = "Invalid JWT token"
           /\ resp.subject = ""
           /\ resp.new_token = NoToken
           /\ ~resp.set_cookie.present
\* A request presented the forged token after its expiry.
C12_Witness ==
    /\ resp.endpoint = "get_user"
    /\ resp.cookie = BearerCookie(Forged)
    /\ resp.t >= Forged.exp
    /\ resp.detail = "Invalid JWT token"

\* C13: POST /api/logout with a valid CSRF header is answered 200, whether
\* or not the request bears a session cookie, and the response sets the
\* session cookie to the empty value.
C13_LogoutClearsCookie ==
    (resp.endpoint = "logout" /\ resp.csrf = "valid") =>
        /\ resp.status_code = "200"
        /\ resp.set_cookie = Cookie(<< >>)

\* C14: once a logout request bearing a signed token was answered, that
\* token passes the session check at every time before its own expiry, and
\* the rotation gives it a replacement; the request that follows the logout
\* and bears that token passes the session check of its handler and, on a
\* rotating endpoint, is issued the replacement.
C14_LogoutDoesNotRevoke ==
    [][(resp.endpoint = "logout" /\ Signed(resp.cookie)) =>
          /\ \A t \in Times :
                 (now <= t /\ t < TokenOf(resp.cookie).exp) =>
                     /\ verify_jwt(resp.cookie, t).ok
                     /\ verify_jwt(resp.cookie, t).sub = TokenOf(resp.cookie).sub
                     /\ verify_update_jwt(resp.cookie, t).new_token
                            = Replacement(resp.cookie, t)
          /\ (/\ SessionChecked'
              /\ resp'.cookie = resp.cookie
              /\ Fresh(resp.cookie, resp'.t)) =>
                 /\ resp'.subject = TokenOf(resp.cookie).sub
                 /\ resp'.endpoint \in Rotating =>
                        resp'.new_token = Replacement(resp.cookie, resp'.t)]_vars
\* A logout request bearing a token issued earlier was answered; the token
\* has not expired, and GET /api/user bearing it is answered 200 with the
\* rotated cookie.
C14_Witness ==
    /\ resp.endpoint = "logout"
    /\ Fresh(resp.cookie, now)
    /\ TokenOf(resp.cookie).iat < resp.t
    /\ get_user_refresh_jwt(resp.cookie, now).status_code = "200"
    /\ get_user_refresh_jwt(resp.cookie, now).set_cookie
           = BearerCookie(Replacement(resp.cookie, now))

\* The signup exchange this step completed, with a valid CSRF header.
SignupDone == resp'.endpoint = "signup" /\ resp'.csrf = "valid"
\* The subject of the request is in the store when the request arrives.
Known == find_email(collection_user, resp'.body.email) # {}
Short == PasswordLen(resp'.body.password) < 6
SignupRefused(detail) ==
    /\ resp'.status_code = "401"
    /\ resp'.detail = detail
    /\ collection_user' = collection_user
SignupCreated ==
    /\ resp'.status_code = "201"
    /\ resp'.subject = resp'.body.email
    /\ \E d \in collection_user' \ collection_user :
           /\ collection_user' = collection_user \cup {d}
           /\ d.email = resp'.body.email
           /\ verify_password(resp'.body.password, d.password)

\* C15 as stated: a signup with a password shorter than 6 characters fails
\* with "Password is too short" and creates no user; one with a password of
\* 6 characters or more for a subject not in the store succeeds and creates
\* the user; one for a subject in the store fails with "User already
\* exists" and leaves the store unchanged.
C15_SignupOutcomes ==
    [][SignupDone =>
          /\ Short => SignupRefused("Password is too short")
          /\ (~Short /\ ~Known) => SignupCreated
          /\ Known => SignupRefused("User already exists")]_vars

\* C15 as amended: a signup for a subject in the store fails with "User
\* already exists", whatever the password; for a subject not in the store,
\* a password shorter than 6 characters fails with "Password is too short"
\* and one of 6 characters or more succeeds and creates the user; a refused
\* signup leaves the store unchanged.
C15_SignupOutcomesOverlapFirst ==
    [][SignupDone =>
          /\ Known => SignupRefused("User already exists")
          /\ (~Known /\ Short) => SignupRefused("Password is too short")
          /\ (~Known /\ ~Short) => SignupCreated]_vars
\* A signup with a short password for a subject in the store was refused
\* as an overlap.
C15_Witness ==
    /\ resp.endpoint = "signup"
    /\ resp.csrf = "valid"
    /\ PasswordLen(resp.body.password) < 6
    /\ find_email(collection_user, resp.body.email) # {}
    /\ resp.detail = "User already exists"

\* C16: a login with a valid CSRF header, when the store holds the subject
\* and the password verifies against the stored hash, is answered 200 and
\* sets the session cookie to "Bearer <token>", where the token decodes to
\* the subject and expires 5 minutes after the login; otherwise it is
\* answered 401 "Invalid credentials" and sets no cookie.
C16_LoginOutcomes ==
    (resp.endpoint = "login" /\ resp.csrf = "valid") =>
        IF \E u \in collection_user :
               /\ u.email = resp.body.email
               /\ verify_password(resp.body.password, u.password)
        THEN /\ resp.status_code = "200"
             /\ resp.set_cookie.present
             /\ Len(resp.set_cookie.value) = 2
             /\ resp.set_cookie.value[1] = Bearer
             /\ decode_jwt(partition(resp.set_cookie.value), resp.t)
                    = Subject(resp.body.email)
             /\ TokenOf(resp.set_cookie).exp = resp.t + TTL
             /\ jar = resp.set_cookie
        ELSE /\ resp.status_code = "401"
             /\ resp.detail = "Invalid credentials"
             /\ ~resp.set_cookie.present
             /\ jar = resp.cookie
\* A login with the wrong password for a subject in the store was refused.
C16_Witness ==
    /\ resp.endpoint = "login"
    /\ resp.csrf = "valid"
    /\ find_email(collection_user, resp.body.email) # {}
    /\ resp.status_code = "401"
    /\ ~resp.set_cookie.present

\* C17: GET /api/todo only verifies the session: its check decodes the
\* token and issues none, the response sets no cookie, and the client holds
\* after the call the cookie it sent, with the expiry it had; the call
\* succeeds exactly when the request bears a signed, unexpired token.
C17_GetTodosOnlyVerifies ==
    resp.endpoint = "get_todos" =>
        /\ Range(resp.calls) \subseteq {"decode_jwt"}
        /\ resp.new_token = NoToken
        /\ ~resp.set_cookie.present
        /\ jar = resp.cookie
        /\ resp.status_code = "200" <=> Fresh(resp.cookie, resp.t)
        /\ resp.status_code = "200" =>
               /\ resp.subject = TokenOf(resp.cookie).sub
               /\ TokenOf(jar).exp = TokenOf(resp.cookie).iat + TTL
\* GET /api/todo succeeded with a token issued earlier, which the client
\* still holds.
C17_Witness ==
    /\ resp.endpoint = "get_todos"
    /\ resp.status_code = "200"
    /\ TokenOf(resp.cookie).iat < resp.t
    /\ jar = resp.cookie
    /\ TokenOf(jar).exp < resp.t + TTL

\* C18: the session check decodes what follows the first space of the
\* cookie value.  A cookie that is present and holds no space (the empty
\* value, a lone word, a lone token) is refused with 401 "Invalid JWT
\* token", not with the 404 of a missing cookie; so is a value with a
\* second space; and a value of two words is treated as "Bearer <second
\* word>" whatever the first word is, so that a signed, unexpired token
\* behind any word is accepted.
C18_TokenExtraction ==
    (SessionChecked /\ resp.cookie.present) =>
        /\ Len(resp.cookie.value) # 2 =>
               /\ resp.status_code = "401"
               /\ resp.detail = "Invalid JWT token"
               /\ resp.subject = ""
               /\ ~resp.set_cookie.present
        /\ Len(resp.cookie.value) = 2 =>
               /\ verify_jwt(resp.cookie, resp.t)
                      = verify_jwt(Cookie(<<Bearer, resp.cookie.value[2]>>), resp.t)
               /\ resp.subject = decode_jwt(<<resp.cookie.value[2]>>, resp.t).sub
               /\ Fresh(resp.cookie, resp.t) =>
                      /\ resp.subject = TokenOf(resp.cookie).sub
                      /\ resp.status_code # "401"
\* A request whose cookie is "Basic <token>" was accepted.
C18_Witness ==
    /\ resp.endpoint = "get_user"
    /\ resp.cookie.present
    /\ Len(resp.cookie.value) = 2
    /\ resp.cookie.value[1] = Text("Basic")
    /\ resp.status_code = "200"
    /\ resp.subject = TokenOf(resp.cookie).sub

\* C19: under every interleaving of concurrent signups the user collection
\* holds at most one document per email, and a signup that succeeds is the
\* only one that created a user for its email.
C19_UniqueSubjects ==
    /\ \A e \in Emails : Cardinality(find_email(collection_user, e)) <= 1
    /\ (resp.endpoint = "signup" /\ resp.status_code = "201") =>
           Cardinality(find_email(collection_user, resp.body.email)) = 1

\* C20: under every interleaving of an update with a concurrent delete of
\* the same id, db_update_todo gives the serialized record or False: it
\* does not serialize a record that is absent, and the request is not
\* answered with an unhandled error.
C20_UpdateGivesRecordOrFalse ==
    (resp.endpoint = "update_todo" /\ SessionPassed) =>
        /\ resp.res \in {"dict", "False"}
        /\ resp.status_code \in {"200", "404"}

====
